---- MODULE Spec2Model ----
(***************************************************************************)
(* Lifecycle orchestrator of rabellamy/server: the HTTP variant            *)
(* (rest/server.go) and the RPC variant (grpc/server.go).  One behaviour   *)
(* of the model is one constructed server, its run, and the tasks run      *)
(* starts.  The listeners are "primary" (the main HTTP server or the gRPC  *)
(* server) and "metrics".                                                  *)
(* The RED metrics interceptors (the HTTP middleware, the unary and the     *)
(* stream interceptor) and extractServiceMethod have specifications of     *)
(* their own, RedSpec and ExtractSpec, in which the orchestrator is idle.  *)
(***************************************************************************)
EXTENDS Integers, Sequences, FiniteSets, TLC

\* ---------------------------------------------------------------- bounds
MaxTimeout == 2      \* Config.ShutdownTimeout ranges over 0..MaxTimeout ticks
MaxInflight == 1     \* requests or calls in flight per listener
MaxSignals == 1      \* OS signals delivered in one behaviour
MaxCalls == 2        \* requests or RPCs sent through the RED interceptors
MaxLen == 6          \* length of the strings given to extractServiceMethod

VARIABLES
    variant,          \* "http" (rest.httpServer) or "rpc" (grpc.Server)
    shutdownTimeout,  \* config.ShutdownTimeout, in ticks
    addrOK,           \* per listener: net.Listen on its address succeeds
    ctxCancelled,     \* s.ctx is done
    shutdownCh,       \* the shutdown channel (capacity 1)
    sigsSent,         \* signals delivered so far
    serverErrors,     \* the serverErrors channel (capacity 2)
    servePc,          \* per listener: position of its Serve task
    serveRet,         \* per listener: the value its Serve task will send
    bound,            \* per listener: its address is bound by a socket
    tracked,          \* per listener: the server is accepting on the socket
    inShutdown,       \* per listener: Shutdown/Close/GracefulStop/Stop began
    inflight,         \* per listener: requests or calls being handled
    health,           \* healthServer status of config.Name
    runPc,            \* position of run / shutdownServers
    sdIdx,            \* HTTP shutdownServers: index in the servers slice
    shutCtx,          \* the context shutdownServers was given
    now,              \* ticks since the select of run resolved
    cause,            \* the sig string of shutdownServers, "none" before
    result,           \* the error run returns (<<>> is nil)
    gsPc,             \* position of the GracefulStop task (RPC variant)
    stopped,          \* the stopped channel is closed (RPC variant)
    log,              \* shutdown log events, in emission order
    started,          \* listeners whose startup event was logged
    gracefulInvoked,  \* listeners whose graceful stop has been invoked
    forceInvoked,     \* listeners whose force stop has been invoked
    gracefulFailed,   \* listeners whose graceful stop failed, in order
    workCut,          \* listeners force-stopped with work still in flight
    cutAt,            \* the tick of the first such force stop, -1 if none
    gsInTime,         \* GracefulStop returned while the context was not done
    cancelledAtEntry, \* s.ctx was done when the select of run resolved
    busyInShutdown,   \* some listener had work in flight during shutdown
    initiated,        \* shutdownServers: what it has initiated, in order
    requests,         \* red.Requests: count per label values
    errors,           \* red.Errors: count per error label value
    observations,     \* red.Duration: observations per instrument and labels
    instruments,      \* the instruments of red.Duration that are not nil
    call,             \* per call: its position in the interceptor, its locals
    fullMethod,       \* the string given to extractServiceMethod
    extracted,        \* what extractServiceMethod returned for it
    registry,         \* the names registered in the process-wide registry
    ctor              \* the last call of a constructor and its outcome

lifeVars == <<variant, shutdownTimeout, addrOK, ctxCancelled, shutdownCh, sigsSent,
          serverErrors, servePc, serveRet, bound, tracked, inShutdown, inflight,
          health, runPc, sdIdx, shutCtx, now, cause, result, gsPc, stopped, log,
          started, gracefulInvoked, forceInvoked, gracefulFailed, workCut, cutAt,
          gsInTime, cancelledAtEntry, busyInShutdown, initiated>>
redVars == <<requests, errors, observations, instruments, call>>
exVars == <<fullMethod, extracted>>
regVars == <<registry, ctor>>
vars == <<lifeVars, redVars, exVars, regVars>>

cfgVars == <<variant, shutdownTimeout, addrOK>>
envVars == <<ctxCancelled, shutdownCh, sigsSent>>
srvVars == <<bound, tracked, inShutdown, inflight>>
taskVars == <<servePc, serveRet, serverErrors, started>>
runVars == <<runPc, sdIdx, shutCtx, now, cause, result>>
gsVars == <<gsPc, stopped>>
callVars == <<gracefulInvoked, forceInvoked, gracefulFailed, workCut, cutAt,
              initiated>>
histVars == <<callVars, cancelledAtEntry>>

\* ------------------------------------------------------------ vocabulary
Listeners == {"primary", "metrics"}
Variants == {"http", "rpc"}
Signals == {"interrupt", "terminated"}

\* The name a listener carries in log events and error messages.
ServerName(v, l) ==
    IF l = "metrics" THEN "metrics" ELSE IF v = "http" THEN "main" ELSE "grpc"

\* Errors are sequences of message parts, outermost first; <<>> is nil.
Nil == <<>>
ErrServerClosed == <<"http: Server closed">>
ErrServerStopped == <<"grpc: the server has been stopped">>
ListenError == <<"listen tcp: address error">>
Canceled == <<"context canceled">>
DeadlineExceeded == <<"context deadline exceeded">>

\* fmt.Errorf(prefix + "%w", err): non-nil even when err is nil.
Wrap(prefix, err) == <<prefix>> \o err

\* The listener served by net/http: the metrics listener, and the primary
\* listener of the HTTP variant.
IsHTTPServer(l) == l = "metrics" \/ variant = "http"

\* ------------------------------------------------------------- contexts
NoCtx == [kind |-> "none", deadline |-> -1, err |-> Nil]

\* s.ctx itself, handed to shutdownServers once it is done.
ParentCtx == [kind |-> "parent", deadline |-> -1, err |-> Canceled]

\* context.WithTimeout(context.Background(), d) created at tick t.
WithTimeoutBackground(t, d) ==
    [kind |-> "fresh", deadline |-> t + d,
     err |-> IF d <= 0 THEN DeadlineExceeded ELSE Nil]

\* Variant of WithTimeoutParent whose context does not hang on s.ctx.
WithTimeoutParent_Detached(t, d, parentDone) ==
    [kind |-> "fresh", deadline |-> t + d,
     err |-> IF d <= 0 THEN DeadlineExceeded ELSE Nil]

\* context.WithTimeout(s.ctx, d) created at tick t.
WithTimeoutParent(t, d, parentDone) ==
    [kind |-> "derived", deadline |-> t + d,
     err |-> IF parentDone THEN Canceled
             ELSE IF d <= 0 THEN DeadlineExceeded ELSE Nil]

\* <-ctx.Done() is ready.
CtxDone(c) == c.err # Nil

\* ---------------------------------------------------------- construction
\* Namespaces are sequences of characters.  The regular expression of
\* metrics.NewRED, ^[a-zA-Z_:][a-zA-Z0-9_:]*$, on the characters the model
\* uses: two letters, two digits, the underscore, the colon and the hyphen.
MatchesMetricName(ns) ==
    LET Letters == {"a", "Z"}
        Digits == {"0", "9"}
    IN  /\ Len(ns) >= 1
        /\ ns[1] \in Letters \cup {"_", ":"}
        /\ \A k \in 2..Len(ns) :
               ns[k] \in Letters \cup Digits \cup {"_", ":"}

\* The namespaces given to the constructors: two that match and three that
\* do not (empty, leading digit, disallowed character).
Namespaces ==
    {<<"a">>, <<"_", ":", "Z", "9">>, <<>>, <<"9", "a">>, <<"a", "-">>}

\* The errors of construction.
InvalidNamespace == <<"namespace must match ^[a-zA-Z_:][a-zA-Z0-9_:]*$">>
AlreadyRegistered == <<"duplicate metrics collector registration attempted">>

\* A RED metric set, and the name under which its instruments are registered
\* in the process-wide registry.
RED(ns, requestType) == [namespace |-> ns, requestType |-> requestType]
RegistryId(red) == <<red.requestType, red.namespace>>

\* Variant of NewRED that accepts every namespace.
NewRED_Unchecked(ns, requestType) ==
    [red |-> RED(ns, requestType), err |-> Nil]

\* metrics.NewRED(namespace, requestType, ...): nothing is registered.
NewRED(ns, requestType) ==
    IF ~MatchesMetricName(ns)
    THEN [red |-> RED(<<>>, "none"), err |-> InvalidNamespace]
    ELSE [red |-> RED(ns, requestType), err |-> Nil]

\* Variant of Register that accepts a name that is already registered.
Register_Idempotent(reg, red) ==
    [registry |-> reg \cup {RegistryId(red)}, err |-> Nil]

\* red.Register() on the registry reg.
Register(reg, red) ==
    IF RegistryId(red) \in reg THEN [registry |-> reg, err |-> AlreadyRegistered]
    ELSE [registry |-> reg \cup {RegistryId(red)}, err |-> Nil]

\* What a constructor leaves behind: the object it returns (nil on failure),
\* its error, the registry, and whether it panicked instead of returning.
Object(kind, config, mux) == [kind |-> kind, config |-> config, mux |-> mux]
Config(ns, malformed) == [namespace |-> ns, malformed |-> malformed]
NilObject == Object("nil", Config(<<>>, {}), {})
Outcome(object, err, reg, panicked) ==
    [object |-> object, err |-> err, registry |-> reg, panicked |-> panicked]

\* A metric set made and registered, as the tests do it.
NewMetricSet(ns, requestType, reg) ==
    LET made == NewRED(ns, requestType)
        done == Register(reg, made.red)
    IN  IF made.err # Nil THEN Outcome(NilObject, made.err, reg, FALSE)
        ELSE IF done.err # Nil THEN Outcome(NilObject, done.err, reg, FALSE)
        ELSE Outcome(Object("metricset", Config(ns, {}), {}), Nil,
                     done.registry, FALSE)

\* NewREDMiddleware(namespace, next) on the registry reg.
NewREDMiddleware(ns, mux, reg) ==
    LET made == NewRED(ns, "http")
        done == Register(reg, made.red)
    IN  IF made.err # Nil
        THEN Outcome(NilObject, Wrap("failed to create RED metrics: ", made.err),
                     reg, FALSE)
        ELSE IF done.err # Nil
        THEN Outcome(NilObject, Wrap("failed to register RED metrics: ", done.err),
                     reg, FALSE)
        ELSE Outcome(Object("middleware", Config(ns, {}), mux), Nil,
                     done.registry, FALSE)

\* The patterns callers register routes at; a route table is the set of its
\* patterns, the handler of pattern p being <<"route", p>>.
Patterns == {"/", "/foo", "/health"}

\* CreateRoutes(routes): every route is registered, then the health handler
\* at "/health"; ServeMux.HandleFunc panics on a pattern that is already
\* registered.
CreateRoutes(routes) ==
    IF "/health" \in routes THEN [panicked |-> TRUE, mux |-> {}]
    ELSE [panicked |-> FALSE,
          mux |-> {<<p, <<"route", p>>>> : p \in routes}
                  \cup {<<"/health", <<"health", "/health">>>>}]

\* The handler a ServeMux picks for a path: the one registered at the path
\* itself, else the one of the subtree "/", else NotFound.
MuxHandler(mux, path) ==
    IF \E e \in mux : e[1] = path THEN (CHOOSE e \in mux : e[1] = path)[2]
    ELSE IF \E e \in mux : e[1] = "/" THEN (CHOOSE e \in mux : e[1] = "/")[2]
    ELSE <<"NotFound", path>>

\* The status a handler answers with, when the model knows it: the health
\* handler writes its body without WriteHeader, NotFound answers 404; a
\* caller's handler answers what it likes (0).
HandlerStatus(h) ==
    IF h[1] = "health" THEN 200 ELSE IF h[1] = "NotFound" THEN 404 ELSE 0

\* rest.NewServer(ctx, config, routes, logger) on the registry reg: the
\* addresses of the configuration are stored as they are.
RestNewServer(config, routes, reg) ==
    LET mainMux == CreateRoutes(routes)
        handler == NewREDMiddleware(config.namespace, mainMux.mux, reg)
    IN  IF mainMux.panicked THEN Outcome(NilObject, Nil, reg, TRUE)
        ELSE IF handler.err # Nil THEN Outcome(NilObject, handler.err, reg, FALSE)
        ELSE Outcome(Object("rest", config, mainMux.mux), Nil,
                     handler.registry, FALSE)

\* grpc.NewServer(ctx, config, register, logger) on the registry reg.
GrpcNewServer(config, reg) ==
    LET made == NewRED(config.namespace, "grpc")
        done == Register(reg, made.red)
    IN  IF made.err # Nil
        THEN Outcome(NilObject, Wrap("failed to create RED metrics: ", made.err),
                     reg, FALSE)
        ELSE IF done.err # Nil
        THEN Outcome(NilObject, Wrap("failed to register RED metrics: ", done.err),
                     reg, FALSE)
        ELSE Outcome(Object("grpc", config, {}), Nil, done.registry, FALSE)

\* NewServer of the variant v.
NewServer(v, config, routes, reg) ==
    IF v = "http" THEN RestNewServer(config, routes, reg)
    ELSE GrpcNewServer(config, reg)

\* The last call of a constructor: which one, with what, on which registry,
\* and what came of it.
Ctor(fn, config, routes, before, out) ==
    [fn |-> fn, config |-> config, routes |-> routes, before |-> before,
     out |-> out]
NoCtor ==
    Ctor("none", Config(<<>>, {}), {}, {}, Outcome(NilObject, Nil, {}, FALSE))

\* The configuration of the orchestrator whose run the model follows: its
\* namespace, and as malformed the addresses net.Listen fails on.
ServerConfig == Config(<<"a">>, {l \in Listeners : ~addrOK[l]})

\* Variant in which the orchestrator's construction registered nothing.
RegAfterNewServer_Empty ==
    /\ registry = {}
    /\ ctor = NoCtor

\* The process after the orchestrator was constructed.
RegAfterNewServer ==
    /\ registry = NewServer(variant, ServerConfig, {}, {}).registry
    /\ ctor = NoCtor

\* ------------------------------------------------------------------ Init
\* The orchestrator after NewServer.
LifeInit ==
    /\ variant \in Variants
    /\ shutdownTimeout \in 0..MaxTimeout
    /\ addrOK \in [Listeners -> BOOLEAN]
    /\ ctxCancelled = FALSE
    /\ shutdownCh = <<>>
    /\ sigsSent = 0
    /\ serverErrors = <<>>
    /\ servePc = [l \in Listeners |-> "idle"]
    /\ serveRet = [l \in Listeners |-> Nil]
    /\ bound = [l \in Listeners |-> FALSE]
    /\ tracked = [l \in Listeners |-> FALSE]
    /\ inShutdown = [l \in Listeners |-> FALSE]
    /\ inflight = [l \in Listeners |-> 0]
    /\ health = "UNKNOWN"
    /\ runPc = "idle"
    /\ sdIdx = 0
    /\ shutCtx = NoCtx
    /\ now = 0
    /\ cause = "none"
    /\ result = Nil
    /\ gsPc = "none"
    /\ stopped = FALSE
    /\ log = <<>>
    /\ started = {}
    /\ gracefulInvoked = {}
    /\ forceInvoked = {}
    /\ gracefulFailed = <<>>
    /\ workCut = {}
    /\ cutAt = -1
    /\ gsInTime = FALSE
    /\ cancelledAtEntry = FALSE
    /\ busyInShutdown = FALSE
    /\ initiated = <<>>

\* A counter vector without any child: WithLabelValues creates a child at
\* its first use.
NoCounts == <<>>

\* A call that has not reached the interceptor.  target is the request or
\* the full-method string, labels the request label values, statusCode the
\* field of the responseWriter, sent the status committed to the client (0:
\* none yet), err what the handler returned, ret what the interceptor
\* returned, trace the metric operations and the handler invocation of this
\* call, in order.
IdleCall ==
    [pc |-> "idle", kind |-> "none", target |-> <<>>, labels |-> <<>>,
     statusCode |-> 0, sent |-> 0, err |-> Nil, ret |-> Nil, trace |-> <<>>]

\* The RED metrics as registered, no call made.
RedIdle ==
    /\ requests = NoCounts
    /\ errors = NoCounts
    /\ observations = NoCounts
    /\ instruments = {"histogram"}
    /\ call = [i \in 1..MaxCalls |-> IdleCall]

\* extractServiceMethod not called.
NotExtracted == [done |-> FALSE, service |-> <<>>, method |-> <<>>, err |-> <<>>]

ExIdle ==
    /\ fullMethod = <<>>
    /\ extracted = NotExtracted

Init == LifeInit /\ RedIdle /\ ExIdle /\ RegAfterNewServer
InShutdownPhase == runPc \in {"shutdown", "sd_wait", "sd_metrics", "sd_select"}

\* ----------------------------------------------------------- environment
\* The caller cancels the context given to NewServer.
CancelCtx ==
    /\ ~ctxCancelled
    /\ ctxCancelled' = TRUE
    /\ shutCtx' = IF shutCtx.kind = "derived" /\ shutCtx.err = Nil
                  THEN [shutCtx EXCEPT !.err = Canceled] ELSE shutCtx
    /\ UNCHANGED <<cfgVars, redVars, exVars, regVars,
                   shutdownCh, sigsSent, srvVars, taskVars, health,
                   runPc, sdIdx, now, cause, result, gsVars, log, histVars,
                   gsInTime, busyInShutdown>>

\* The signal package delivers a signal without blocking: it is dropped
\* when the channel is full.
DeliverSignal(sig) ==
    /\ runPc # "idle"
    /\ sigsSent < MaxSignals
    /\ sigsSent' = sigsSent + 1
    /\ shutdownCh' = IF Len(shutdownCh) < 1 THEN Append(shutdownCh, sig)
                     ELSE shutdownCh
    /\ UNCHANGED <<cfgVars, redVars, exVars, regVars,
                   ctxCancelled, srvVars, taskVars, health, runVars,
                   gsVars, log, histVars, gsInTime, busyInShutdown>>

\* A client's request or call reaches a serving listener's handler.
Arrive(l) ==
    /\ tracked[l] /\ ~inShutdown[l]
    /\ inflight[l] < MaxInflight
    /\ inflight' = [inflight EXCEPT ![l] = @ + 1]
    /\ busyInShutdown' = (busyInShutdown \/ InShutdownPhase)
    /\ UNCHANGED <<cfgVars, redVars, exVars, regVars,
                   envVars, bound, tracked, inShutdown, taskVars,
                   health, runVars, gsVars, log, histVars, gsInTime>>

\* A handler returns; its connection becomes idle.
Finish(l) ==
    /\ inflight[l] > 0
    /\ inflight' = [inflight EXCEPT ![l] = @ - 1]
    /\ UNCHANGED <<cfgVars, redVars, exVars, regVars,
                   envVars, bound, tracked, inShutdown, taskVars,
                   health, runVars, gsVars, log, histVars, gsInTime, busyInShutdown>>

\* After run has returned, the caller constructs another orchestrator of
\* the same variant with the same configuration in the same process.
NewServerAgain ==
    /\ runPc = "returned"
    /\ ctor = NoCtor
    /\ LET out == NewServer(variant, ServerConfig, {}, registry)
       IN  /\ ctor' = Ctor(IF variant = "http" THEN "rest.NewServer"
                           ELSE "grpc.NewServer",
                           ServerConfig, {}, registry, out)
           /\ registry' = out.registry
    /\ UNCHANGED <<lifeVars, redVars, exVars>>

\* ------------------------------------------------------------ Serve tasks
\* The task of an http.Server: the startup event, then ListenAndServe, which
\* returns ErrServerClosed at once on a server that is shutting down.
ServeBegin(l) ==
    /\ servePc[l] = "spawned" /\ IsHTTPServer(l)
    /\ started' = started \cup {l}
    /\ IF inShutdown[l]
       THEN /\ servePc' = [servePc EXCEPT ![l] = "send"]
            /\ serveRet' = [serveRet EXCEPT ![l] = ErrServerClosed]
       ELSE /\ servePc' = [servePc EXCEPT ![l] = "listen"]
            /\ UNCHANGED serveRet
    /\ UNCHANGED <<cfgVars, redVars, exVars, regVars,
                   envVars, srvVars, serverErrors, health, runVars,
                   gsVars, log, histVars, gsInTime, busyInShutdown>>

\* net.Listen inside ListenAndServe.
ServeListen(l) ==
    /\ servePc[l] = "listen"
    /\ IF addrOK[l]
       THEN /\ bound' = [bound EXCEPT ![l] = TRUE]
            /\ servePc' = [servePc EXCEPT ![l] = "track"]
            /\ UNCHANGED serveRet
       ELSE /\ servePc' = [servePc EXCEPT ![l] = "send"]
            /\ serveRet' = [serveRet EXCEPT ![l] = ListenError]
            /\ UNCHANGED bound
    /\ UNCHANGED <<cfgVars, redVars, exVars, regVars,
                   envVars, tracked, inShutdown, inflight,
                   serverErrors, started, health, runVars, gsVars, log,
                   histVars, gsInTime, busyInShutdown>>

\* http.Server.Serve registers the listener, or closes it and returns
\* ErrServerClosed when the server began shutting down meanwhile.
ServeTrack(l) ==
    /\ servePc[l] = "track"
    /\ IF inShutdown[l]
       THEN /\ bound' = [bound EXCEPT ![l] = FALSE]
            /\ servePc' = [servePc EXCEPT ![l] = "send"]
            /\ serveRet' = [serveRet EXCEPT ![l] = ErrServerClosed]
            /\ UNCHANGED tracked
       ELSE /\ tracked' = [tracked EXCEPT ![l] = TRUE]
            /\ servePc' = [servePc EXCEPT ![l] = "serving"]
            /\ UNCHANGED <<bound, serveRet>>
    /\ UNCHANGED <<cfgVars, redVars, exVars, regVars,
                   envVars, inShutdown, inflight, serverErrors,
                   started, health, runVars, gsVars, log, histVars,
                   gsInTime, busyInShutdown>>

\* Variant of GrpcListen that sets the health status before it looks at the
\* result of net.Listen.
GrpcListen_ServingFirst ==
    /\ servePc["primary"] = "spawned" /\ variant = "rpc"
    /\ health' = "SERVING"
    /\ IF addrOK["primary"]
       THEN /\ bound' = [bound EXCEPT !["primary"] = TRUE]
            /\ servePc' = [servePc EXCEPT !["primary"] = "listened"]
            /\ UNCHANGED serveRet
       ELSE /\ servePc' = [servePc EXCEPT !["primary"] = "send"]
            /\ serveRet' = [serveRet EXCEPT !["primary"] =
                               Wrap("failed to listen on host: ", ListenError)]
            /\ UNCHANGED bound
    /\ UNCHANGED <<cfgVars, redVars, exVars, regVars, envVars, tracked,
                   inShutdown, inflight, serverErrors, started, runVars,
                   gsVars, log, histVars, gsInTime, busyInShutdown>>

\* The gRPC start task: net.Listen, and on failure the wrapped error.
GrpcListen ==
    /\ servePc["primary"] = "spawned" /\ variant = "rpc"
    /\ IF addrOK["primary"]
       THEN /\ bound' = [bound EXCEPT !["primary"] = TRUE]
            /\ servePc' = [servePc EXCEPT !["primary"] = "listened"]
            /\ UNCHANGED serveRet
       ELSE /\ servePc' = [servePc EXCEPT !["primary"] = "send"]
            /\ serveRet' = [serveRet EXCEPT !["primary"] =
                               Wrap("failed to listen on host: ", ListenError)]
            /\ UNCHANGED bound
    /\ UNCHANGED <<cfgVars, redVars, exVars, regVars,
                   envVars, tracked, inShutdown, inflight,
                   serverErrors, started, health, runVars, gsVars, log,
                   histVars, gsInTime, busyInShutdown>>

\* The gRPC start task after a successful bind: the startup event, the
\* health status SERVING, then grpcServer.Serve, which closes the listener
\* and returns ErrServerStopped on a server that was already stopped.
GrpcServe ==
    /\ servePc["primary"] = "listened"
    /\ started' = started \cup {"primary"}
    /\ health' = "SERVING"
    /\ IF inShutdown["primary"]
       THEN /\ bound' = [bound EXCEPT !["primary"] = FALSE]
            /\ servePc' = [servePc EXCEPT !["primary"] = "send"]
            /\ serveRet' = [serveRet EXCEPT !["primary"] = ErrServerStopped]
            /\ UNCHANGED tracked
       ELSE /\ tracked' = [tracked EXCEPT !["primary"] = TRUE]
            /\ servePc' = [servePc EXCEPT !["primary"] = "serving"]
            /\ UNCHANGED <<bound, serveRet>>
    /\ UNCHANGED <<cfgVars, redVars, exVars, regVars,
                   envVars, inShutdown, inflight, serverErrors,
                   runVars, gsVars, log, histVars, gsInTime, busyInShutdown>>

\* Variant of ServeSend on a channel with a single slot.
ServeSend_OneSlot(l) ==
    /\ servePc[l] = "send"
    /\ Len(serverErrors) < 1
    /\ serverErrors' = Append(serverErrors, serveRet[l])
    /\ servePc' = [servePc EXCEPT ![l] = "done"]
    /\ UNCHANGED <<cfgVars, redVars, exVars, regVars, envVars, srvVars,
                   serveRet, started, health, runVars, gsVars, log, histVars,
                   gsInTime, busyInShutdown>>

\* serverErrors <- err: the channel holds one slot per Serve task.
ServeSend(l) ==
    /\ servePc[l] = "send"
    /\ Len(serverErrors) < 2
    /\ serverErrors' = Append(serverErrors, serveRet[l])
    /\ servePc' = [servePc EXCEPT ![l] = "done"]
    /\ UNCHANGED <<cfgVars, redVars, exVars, regVars,
                   envVars, srvVars, serveRet, started, health,
                   runVars, gsVars, log, histVars, gsInTime, busyInShutdown>>

\* ----------------------------------------------------- stopping a server
\* What closing the listeners of server l does to its socket and its Serve
\* task: a registered listener is closed and the blocked Serve call returns
\* (ErrServerClosed from net/http, nil from grpc); a socket that its task has
\* bound but not yet handed to the server is not known to the server.
ClosedBound(l) == [bound EXCEPT ![l] = IF tracked[l] THEN FALSE ELSE @]
ClosedTracked(l) == [tracked EXCEPT ![l] = FALSE]
ClosedServePc(l) == [servePc EXCEPT ![l] = IF tracked[l] THEN "send" ELSE @]
ClosedServeRet(l) ==
    [serveRet EXCEPT ![l] = IF tracked[l]
                            THEN IF IsHTTPServer(l) THEN ErrServerClosed ELSE Nil
                            ELSE @]

CloseListeners(l) ==
    /\ inShutdown' = [inShutdown EXCEPT ![l] = TRUE]
    /\ bound' = ClosedBound(l)
    /\ tracked' = ClosedTracked(l)
    /\ servePc' = ClosedServePc(l)
    /\ serveRet' = ClosedServeRet(l)

\* Force stop of l (http.Server.Close, grpc.Server.Stop): every connection is
\* severed, whatever is in flight.
Sever(l) ==
    /\ inflight' = [inflight EXCEPT ![l] = 0]
    /\ forceInvoked' = forceInvoked \cup {l}
    /\ workCut' = IF inflight[l] > 0 THEN workCut \cup {l} ELSE workCut
    /\ cutAt' = IF inflight[l] > 0 /\ cutAt = -1 THEN now ELSE cutAt

\* ------------------------------------------------------------ log events
\* Variant of Event that logs every shutdown as one by cancellation.
Event_Cancelled(server, status, sig) == <<server, status, "context_cancelled">>

Event(server, status, sig) == <<server, status, sig>>

\* The deferred "shutdown complete" events of the first k servers of the HTTP
\* servers slice, in the order the deferred calls run (last deferred first).
RECURSIVE Deferred(_, _, _)
Deferred(servers, k, sig) ==
    IF k = 0 THEN <<>>
    ELSE <<Event(ServerName("http", servers[k]), "shutdown complete", sig)>>
         \o Deferred(servers, k - 1, sig)

\* -------------------------------------------------------------------- run
\* The context the ctx.Done branch of run hands to shutdownServers.
CancelBranchCtx(v, t, d) ==
    IF v = "http" THEN ParentCtx ELSE WithTimeoutBackground(t, d)

\* Variant of SignalBranchCtx that hands over a context without a deadline.
SignalBranchCtx_Background(v, t, d, parentDone) ==
    [kind |-> "background", deadline |-> -1, err |-> Nil]

\* Variant of SignalBranchCtx that grants no time after the signal.
SignalBranchCtx_NoTime(v, t, d, parentDone) == WithTimeoutParent(t, 0, parentDone)

\* The context the signal branch of run hands to shutdownServers.
SignalBranchCtx(v, t, d, parentDone) == WithTimeoutParent(t, d, parentDone)

\* Variant of ServerError that returns the fault as it was reported.
ServerError_Bare(err) == err

\* The error the serverErrors branch of run returns.
ServerError(err) == Wrap("server error: ", err)

\* run up to its select: the channel is made and both Serve tasks are started.
RunStart ==
    /\ runPc = "idle"
    /\ runPc' = "select"
    /\ servePc' = [l \in Listeners |-> "spawned"]
    /\ UNCHANGED <<cfgVars, redVars, exVars, regVars,
                   envVars, srvVars, serveRet, serverErrors, started,
                   health, sdIdx, shutCtx, now, cause, result, gsVars, log,
                   histVars, gsInTime, busyInShutdown>>

\* case <-s.ctx.Done()
RunCtxDone ==
    /\ runPc = "select"
    /\ ctxCancelled
    /\ shutCtx' = CancelBranchCtx(variant, now, shutdownTimeout)
    /\ cause' = "context_cancelled"
    /\ runPc' = "shutdown"
    /\ sdIdx' = 1
    /\ busyInShutdown' = (\E l \in Listeners : inflight[l] > 0)
    /\ cancelledAtEntry' = ctxCancelled
    /\ UNCHANGED <<cfgVars, redVars, exVars, regVars,
                   envVars, srvVars, taskVars, health, now, result,
                   gsVars, log, callVars, gsInTime>>

\* case err := <-serverErrors
RunServerError ==
    /\ runPc = "select"
    /\ Len(serverErrors) > 0
    /\ result' = ServerError(Head(serverErrors))
    /\ serverErrors' = Tail(serverErrors)
    /\ runPc' = "returned"
    /\ UNCHANGED <<cfgVars, redVars, exVars, regVars,
                   envVars, srvVars, servePc, serveRet, started,
                   health, sdIdx, shutCtx, now, cause, gsVars, log, histVars,
                   gsInTime, busyInShutdown>>

\* Variant of RunSignal that also receives the signal while a Shutdown call
\* of the shutdown sequence is waiting.
RunSignal_Reentrant ==
    /\ runPc \in {"select", "sd_wait"}
    /\ Len(shutdownCh) > 0
    /\ shutCtx' = SignalBranchCtx(variant, now, shutdownTimeout, ctxCancelled)
    /\ cause' = Head(shutdownCh)
    /\ shutdownCh' = Tail(shutdownCh)
    /\ runPc' = "shutdown"
    /\ sdIdx' = 1
    /\ busyInShutdown' = (\E l \in Listeners : inflight[l] > 0)
    /\ cancelledAtEntry' = ctxCancelled
    /\ UNCHANGED <<cfgVars, redVars, exVars, regVars, ctxCancelled, sigsSent,
                   srvVars, taskVars, health, now, result, gsVars, log,
                   callVars, gsInTime>>

\* case sig := <-shutdown
RunSignal ==
    /\ runPc = "select"
    /\ Len(shutdownCh) > 0
    /\ shutCtx' = SignalBranchCtx(variant, now, shutdownTimeout, ctxCancelled)
    /\ cause' = Head(shutdownCh)
    /\ shutdownCh' = Tail(shutdownCh)
    /\ runPc' = "shutdown"
    /\ sdIdx' = 1
    /\ busyInShutdown' = (\E l \in Listeners : inflight[l] > 0)
    /\ cancelledAtEntry' = ctxCancelled
    /\ UNCHANGED <<cfgVars, redVars, exVars, regVars,
                   ctxCancelled, sigsSent, srvVars, taskVars, health,
                   now, result, gsVars, log, callVars, gsInTime>>

\* ------------------------------------------------ HTTP shutdownServers
\* The servers slice of httpServer.shutdownServers.
HttpServers == <<"primary", "metrics">>

\* Variant of HttpShutdownError that leaves the server's name out.
HttpShutdownError_NoName(l, err) ==
    Wrap(" server could not stopped gracefully: ", err)

\* The error shutdownServers returns when the Shutdown of l failed with err.
HttpShutdownError(l, err) ==
    Wrap(ServerName("http", l), Wrap(" server could not stopped gracefully: ", err))

\* Variant of HttpCloseOnFailure that closes the other server of the slice.
HttpCloseOnFailure_Other(l) == IF l = "primary" THEN "metrics" ELSE "primary"

\* The listener shutdownServers force-closes when the Shutdown of l failed.
HttpCloseOnFailure(l) == l

\* One iteration of the loop up to the point where Shutdown waits: the
\* "shutdown started" event, the deferred "shutdown complete" event, and
\* Shutdown closing the listeners of the server.
HttpShutdownStart ==
    /\ runPc = "shutdown" /\ variant = "http"
    /\ LET l == HttpServers[sdIdx] IN
        /\ log' = Append(log, Event(ServerName("http", l), "shutdown started", cause))
        /\ CloseListeners(l)
        /\ gracefulInvoked' = gracefulInvoked \cup {l}
        /\ initiated' = Append(initiated, l)
    /\ runPc' = "sd_wait"
    /\ UNCHANGED <<cfgVars, redVars, exVars, regVars,
                   envVars, inflight, serverErrors, started, health,
                   sdIdx, shutCtx, now, cause, result, gsVars, forceInvoked,
                   gracefulFailed, workCut, cutAt, gsInTime, cancelledAtEntry,
                   busyInShutdown>>

\* Shutdown returns: nil once no connection is active, ctx.Err() when the
\* context is done with a connection still active.  On nil the loop goes on
\* or shutdownServers returns nil; on an error the server is closed and the
\* wrapped error is returned.  The deferred events run at either return.
HttpShutdownWait ==
    /\ runPc = "sd_wait"
    /\ LET l == HttpServers[sdIdx] IN
        IF inflight[l] = 0
        THEN /\ IF sdIdx < Len(HttpServers)
                THEN /\ sdIdx' = sdIdx + 1
                     /\ runPc' = "shutdown"
                     /\ UNCHANGED <<log, result>>
                ELSE /\ log' = log \o Deferred(HttpServers, sdIdx, cause)
                     /\ result' = Nil
                     /\ runPc' = "returned"
                     /\ UNCHANGED sdIdx
             /\ UNCHANGED <<inflight, histVars>>
        ELSE /\ CtxDone(shutCtx)
             /\ Sever(HttpCloseOnFailure(l))
             /\ gracefulFailed' = Append(gracefulFailed, l)
             /\ result' = HttpShutdownError(l, shutCtx.err)
             /\ log' = log \o Deferred(HttpServers, sdIdx, cause)
             /\ runPc' = "returned"
             /\ UNCHANGED <<sdIdx, gracefulInvoked, initiated>>
    /\ UNCHANGED <<cfgVars, redVars, exVars, regVars,
                   envVars, bound, tracked, inShutdown, taskVars,
                   health, shutCtx, now, cause, gsVars, gsInTime, cancelledAtEntry,
                   busyInShutdown>>

\* ------------------------------------------------- RPC shutdownServers
\* The errors of shutdownServers, the server's name being the first part.
MetricsShutdownError(err) ==
    Wrap("metrics", Wrap(" server could not stop gracefully: ", err))
GrpcTimeoutError == <<"grpc", " server shutdown timed out">>

\* Variant of RpcShutdownOrder that starts the graceful stops before the
\* health status is changed.
RpcShutdownOrder_HealthLast == <<"primary", "metrics", "health">>

\* What shutdownServers initiates, in the order of its statements: the health
\* status NOT_SERVING, the GracefulStop task of the gRPC server, the Shutdown
\* of the metrics server.
RpcShutdownOrder == <<"health", "primary", "metrics">>

\* shutdownServers up to the point where the Shutdown of the metrics server
\* waits: the health event, NOT_SERVING, the GracefulStop task is started,
\* and Shutdown closes the listeners of the metrics server.
RpcShutdownBegin ==
    /\ runPc = "shutdown" /\ variant = "rpc"
    /\ log' = log \o <<Event("health", "shutdown complete", cause),
                       Event("grpc", "shutting down started", cause),
                       Event("metrics", "shutdown started", cause)>>
    /\ health' = "NOT_SERVING"
    /\ gsPc' = "spawned"
    /\ CloseListeners("metrics")
    /\ gracefulInvoked' = gracefulInvoked \cup {"metrics"}
    /\ initiated' = initiated \o RpcShutdownOrder
    /\ runPc' = "sd_metrics"
    /\ UNCHANGED <<cfgVars, redVars, exVars, regVars,
                   envVars, inflight, serverErrors, started, sdIdx,
                   shutCtx, now, cause, result, stopped, forceInvoked,
                   gracefulFailed, workCut, cutAt, gsInTime, cancelledAtEntry,
                   busyInShutdown>>

\* The Shutdown of the metrics server returns.
RpcMetricsWait ==
    /\ runPc = "sd_metrics"
    /\ IF inflight["metrics"] = 0
       THEN /\ log' = Append(log, Event("metrics", "shutdown complete", cause))
            /\ runPc' = "sd_select"
            /\ UNCHANGED <<inflight, result, histVars>>
       ELSE /\ CtxDone(shutCtx)
            /\ Sever("metrics")
            /\ gracefulFailed' = Append(gracefulFailed, "metrics")
            /\ result' = MetricsShutdownError(shutCtx.err)
            /\ runPc' = "returned"
            /\ UNCHANGED <<log, gracefulInvoked, initiated>>
    /\ UNCHANGED <<cfgVars, redVars, exVars, regVars,
                   envVars, bound, tracked, inShutdown, taskVars,
                   health, sdIdx, shutCtx, now, cause, gsVars, gsInTime, cancelledAtEntry,
                   busyInShutdown>>

\* The GracefulStop task calls grpcServer.GracefulStop: the listeners are
\* closed and no new call is accepted.
GracefulStopBegin ==
    /\ gsPc = "spawned"
    /\ gsPc' = "draining"
    /\ CloseListeners("primary")
    /\ gracefulInvoked' = gracefulInvoked \cup {"primary"}
    /\ UNCHANGED <<cfgVars, redVars, exVars, regVars,
                   envVars, inflight, serverErrors, started, health,
                   runVars, stopped, log, forceInvoked, gracefulFailed, workCut,
                   cutAt, initiated, gsInTime, cancelledAtEntry,
                   busyInShutdown>>

\* GracefulStop returns once no call is in flight, and stopped is closed.
GracefulStopEnd ==
    /\ gsPc = "draining"
    /\ inflight["primary"] = 0
    /\ gsPc' = "done"
    /\ stopped' = TRUE
    /\ gsInTime' = ~CtxDone(shutCtx)
    /\ UNCHANGED <<cfgVars, redVars, exVars, regVars,
                   envVars, srvVars, taskVars, health, runVars, log,
                   histVars, busyInShutdown>>

\* select, case <-ctx.Done(): Stop and the timeout error.
RpcSelectCtxDone ==
    /\ runPc = "sd_select"
    /\ CtxDone(shutCtx)
    /\ CloseListeners("primary")
    /\ Sever("primary")
    /\ gracefulFailed' = Append(gracefulFailed, "primary")
    /\ result' = GrpcTimeoutError
    /\ runPc' = "returned"
    /\ UNCHANGED <<cfgVars, redVars, exVars, regVars,
                   envVars, serverErrors, started, health, sdIdx,
                   shutCtx, now, cause, gsVars, log, gracefulInvoked, initiated,
                   gsInTime, cancelledAtEntry,
                   busyInShutdown>>

\* select, case <-stopped: the graceful stop completed.
RpcSelectStopped ==
    /\ runPc = "sd_select"
    /\ stopped
    /\ log' = Append(log, Event("grpc", "graceful stop complete", cause))
    /\ result' = Nil
    /\ runPc' = "returned"
    /\ UNCHANGED <<cfgVars, redVars, exVars, regVars,
                   envVars, srvVars, taskVars, health, sdIdx, shutCtx,
                   now, cause, gsVars, histVars, gsInTime, busyInShutdown>>

\* ------------------------------------------------------------------ time
\* A step of the program itself: of run, of a Serve task or of the
\* GracefulStop task.
Program ==
    \/ RunStart \/ RunCtxDone \/ RunServerError \/ RunSignal
    \/ \E l \in Listeners : ServeBegin(l) \/ ServeListen(l) \/ ServeTrack(l) \/ ServeSend(l)
    \/ GrpcListen \/ GrpcServe
    \/ HttpShutdownStart \/ HttpShutdownWait
    \/ RpcShutdownBegin \/ RpcMetricsWait \/ RpcSelectCtxDone \/ RpcSelectStopped
    \/ GracefulStopBegin \/ GracefulStopEnd

\* One tick of the clock during shutdown.  Steps of the program take no
\* time: the clock advances only while every task is blocked.
Tick ==
    /\ InShutdownPhase
    /\ now < shutdownTimeout
    /\ ~ENABLED Program
    /\ now' = now + 1
    /\ shutCtx' = IF shutCtx.kind \in {"fresh", "derived"} /\ shutCtx.err = Nil
                     /\ now + 1 >= shutCtx.deadline
                  THEN [shutCtx EXCEPT !.err = DeadlineExceeded] ELSE shutCtx
    /\ UNCHANGED <<cfgVars, redVars, exVars, regVars,
                   envVars, srvVars, taskVars, health, runPc, sdIdx,
                   cause, result, gsVars, log, histVars, gsInTime, busyInShutdown>>

Next ==
    \/ CancelCtx
    \/ \E sig \in Signals : DeliverSignal(sig)
    \/ \E l \in Listeners : Arrive(l)
    \/ \E l \in Listeners : Finish(l)
    \/ NewServerAgain
    \/ RunStart
    \/ RunCtxDone
    \/ RunServerError
    \/ RunSignal
    \/ \E l \in Listeners : ServeBegin(l)
    \/ \E l \in Listeners : ServeListen(l)
    \/ \E l \in Listeners : ServeTrack(l)
    \/ \E l \in Listeners : ServeSend(l)
    \/ GrpcListen
    \/ GrpcServe
    \/ HttpShutdownStart
    \/ HttpShutdownWait
    \/ RpcShutdownBegin
    \/ RpcMetricsWait
    \/ RpcSelectCtxDone
    \/ RpcSelectStopped
    \/ GracefulStopBegin
    \/ GracefulStopEnd
    \/ Tick

Spec == Init /\ [][Next]_vars

\* The scheduling the Go runtime gives: a task that can take a step takes it,
\* and the clock advances while every task is blocked.  Nothing is assumed
\* of the environment: a handler need never return.
FairSpec == Spec /\ WF_vars(Program) /\ WF_vars(Tick)

TypeOK ==
    /\ variant \in Variants
    /\ shutdownTimeout \in 0..MaxTimeout
    /\ Len(shutdownCh) <= 1
    /\ Len(serverErrors) <= 2
    /\ \A l \in Listeners : inflight[l] \in 0..MaxInflight
    /\ now \in 0..MaxTimeout
    /\ health \in {"UNKNOWN", "SERVING", "NOT_SERVING"}

\* ==================================================== extractServiceMethod
\* Strings are sequences of characters; these are the characters the model
\* draws full-method strings from: the separator and two letters.
Chars == {"/", "s", "m"}

StringsUpTo(n) == UNION {[1..k -> Chars] : k \in 0..n}

\* strings.HasPrefix(s, prefix)
HasPrefix(s, prefix) ==
    Len(s) >= Len(prefix) /\ SubSeq(s, 1, Len(prefix)) = prefix

\* strings.LastIndex(s, c) for a one-character c: the 0-based index of the
\* last c in s, -1 when there is none.
RECURSIVE LastIndexBelow(_, _, _)
LastIndexBelow(s, c, n) ==
    IF n = 0 THEN -1
    ELSE IF s[n] = c THEN n - 1
    ELSE LastIndexBelow(s, c, n - 1)

\* Variant of LastIndex that stops at the first c after the leading character.
LastIndex_FirstInner(s, c) ==
    IF \E i \in 2..Len(s) : s[i] = c
    THEN (CHOOSE i \in 2..Len(s) :
              s[i] = c /\ \A j \in 2..(i - 1) : s[j] # c) - 1
    ELSE LastIndexBelow(s, c, Len(s))

LastIndex(s, c) == LastIndexBelow(s, c, Len(s))

\* The Go slice expression s[lo:hi], indices 0-based, hi excluded.
Slice(s, lo, hi) == SubSeq(s, lo + 1, hi)

\* The errors of extractServiceMethod: the message and the string it quotes.
InvalidFormat(s) == <<"invalid gRPC method format: ", s>>
ServiceMissing(s) == <<"invalid gRPC method: service name missing in ", s>>
MethodMissing(s) == <<"invalid gRPC method: method name missing in ", s>>

Extracted(service, method, err) ==
    [service |-> service, method |-> method, err |-> err]

\* Variant of extractServiceMethod without the check of the service name.
extractServiceMethod_NoServiceCheck(s) ==
    IF ~HasPrefix(s, <<"/">>) THEN Extracted(<<>>, <<>>, InvalidFormat(s))
    ELSE LET lastSlash == LastIndex(s, "/")
             service == Slice(s, 1, lastSlash)
             method == Slice(s, lastSlash + 1, Len(s))
         IN  IF lastSlash <= 0 THEN Extracted(<<>>, <<>>, InvalidFormat(s))
             ELSE IF method = <<>> THEN Extracted(<<>>, <<>>, MethodMissing(s))
             ELSE Extracted(service, method, Nil)

\* extractServiceMethod(fullMethod)
extractServiceMethod(s) ==
    IF ~HasPrefix(s, <<"/">>) THEN Extracted(<<>>, <<>>, InvalidFormat(s))
    ELSE LET lastSlash == LastIndex(s, "/")
             service == Slice(s, 1, lastSlash)
             method == Slice(s, lastSlash + 1, Len(s))
         IN  IF lastSlash <= 0 THEN Extracted(<<>>, <<>>, InvalidFormat(s))
             ELSE IF service = <<>> THEN Extracted(<<>>, <<>>, ServiceMissing(s))
             ELSE IF method = <<>> THEN Extracted(<<>>, <<>>, MethodMissing(s))
             ELSE Extracted(service, method, Nil)

\* The orchestrator as constructed with a fixed configuration: it takes no
\* step in the specifications of the interceptors and of extractServiceMethod.
LifeIdle ==
    /\ LifeInit
    /\ shutdownTimeout = 0
    /\ \A l \in Listeners : addrOK[l]

\* extractServiceMethod is about to be called on some string.
ExtractInit ==
    /\ LifeIdle /\ variant = "rpc"
    /\ RedIdle
    /\ fullMethod \in StringsUpTo(MaxLen)
    /\ extracted = NotExtracted
    /\ RegAfterNewServer

\* The call of extractServiceMethod.
Extract ==
    /\ ~extracted.done
    /\ LET r == extractServiceMethod(fullMethod) IN
        extracted' = [done |-> TRUE, service |-> r.service,
                      method |-> r.method, err |-> r.err]
    /\ UNCHANGED <<lifeVars, redVars, regVars, fullMethod>>

ExtractNext == Extract

ExtractSpec == ExtractInit /\ [][ExtractNext]_vars

\* ======================================================= RED interceptors
\* The value of a counter vector's child, 0 when it was never created.
Get(m, k) == IF k \in DOMAIN m THEN m[k] ELSE 0

\* Variant of Inc that writes 1 over what the child holds.
Inc_LostUpdate(m, k) == (k :> 1) @@ m

\* vec.WithLabelValues(k...).Inc(), and Observe: one more on the child of k.
Inc(m, k) == IF k \in DOMAIN m THEN [m EXCEPT ![k] = @ + 1] ELSE m @@ (k :> 1)

\* The duration is observed on the histogram if there is one, then on the
\* summary if there is one.
Observe(obs, insts, labels) ==
    LET h == IF "histogram" \in insts THEN Inc(obs, <<"histogram", labels>>)
             ELSE obs
    IN  IF "summary" \in insts THEN Inc(h, <<"summary", labels>>) ELSE h

\* One entry of a call's trace: a metric operation with the child it acted
\* on, or the invocation of the handler.
Ev(op, key) == <<op, key>>

ObserveEvents(insts, labels) ==
    (IF "histogram" \in insts THEN <<Ev("Duration.Observe", <<"histogram", labels>>)>>
     ELSE <<>>)
    \o (IF "summary" \in insts THEN <<Ev("Duration.Observe", <<"summary", labels>>)>>
        ELSE <<>>)

\* A call may enter the interceptor while others are in it; calls are
\* numbered in the order they enter.
CanBegin(i) ==
    call[i].pc = "idle" /\ (IF i = 1 THEN TRUE ELSE call[i - 1].pc # "idle")

\* ------------------------------------------------------ HTTP middleware
\* strconv.Itoa for a non-negative number: its decimal digits.
Digit(d) == <<"0", "1", "2", "3", "4", "5", "6", "7", "8", "9">>[d + 1]

RECURSIVE Itoa(_)
Itoa(n) == IF n < 10 THEN <<Digit(n)>> ELSE Itoa(n \div 10) \o <<Digit(n % 10)>>

\* The requests sent through the middleware.
HttpRequests ==
    {[path |-> "/", verb |-> "GET"], [path |-> "/health", verb |-> "POST"]}

\* What a handler does with the ResponseWriter it is given: calls of
\* WriteHeader and writes of the body.
WH(code) == [op |-> "WriteHeader", code |-> code]
WriteBody == [op |-> "Write", code |-> 0]

HandlerScripts ==
    {<<>>, <<WriteBody>>, <<WH(200)>>, <<WH(201), WriteBody>>, <<WH(399)>>,
     <<WH(400)>>, <<WH(500), WriteBody>>, <<WH(200), WH(500)>>,
     <<WH(404), WH(200)>>, <<WriteBody, WH(500)>>}

\* responseWriter.WriteHeader: the field is set at every call; the embedded
\* ResponseWriter commits the first status it is given and ignores the rest.
WriteHeader(rw, code) ==
    [statusCode |-> code, sent |-> IF rw.sent = 0 THEN code ELSE rw.sent]

\* Write is not intercepted: the embedded ResponseWriter commits 200 when no
\* status was committed before.
Write(rw) ==
    [statusCode |-> rw.statusCode, sent |-> IF rw.sent = 0 THEN 200 ELSE rw.sent]

\* m.next.ServeHTTP(rw, r) for a handler that performs script.
RECURSIVE ServeScript(_, _)
ServeScript(rw, script) ==
    IF script = <<>> THEN rw
    ELSE ServeScript(IF Head(script).op = "WriteHeader"
                     THEN WriteHeader(rw, Head(script).code) ELSE Write(rw),
                     Tail(script))

\* Variant of IsHTTPError that takes every status for a failure.
IsHTTPError_Any(code) == code >= 200

\* The statuses the middleware counts as errors.
IsHTTPError(code) == code >= 400

\* Variant of HttpBegin that leaves the request counter for later.
HttpBegin_CountLater(i, req) ==
    /\ variant = "http" /\ CanBegin(i)
    /\ call' = [call EXCEPT ![i] =
                   [IdleCall EXCEPT !.pc = "handler", !.kind = "http",
                                    !.target = req,
                                    !.labels = <<req.path, req.verb>>,
                                    !.statusCode = 200]]
    /\ UNCHANGED <<lifeVars, exVars, regVars,
                   requests, errors, observations, instruments>>

\* ServeHTTP up to the call of the inner handler: the responseWriter is
\* made with 200, the request counter is incremented.
HttpBegin(i, req) ==
    /\ variant = "http" /\ CanBegin(i)
    /\ LET labels == <<req.path, req.verb>> IN
        /\ requests' = Inc(requests, labels)
        /\ call' = [call EXCEPT ![i] =
                       [IdleCall EXCEPT !.pc = "handler", !.kind = "http",
                                        !.target = req, !.labels = labels,
                                        !.statusCode = 200,
                                        !.trace = <<Ev("Requests.Inc", labels)>>]]
    /\ UNCHANGED <<lifeVars, exVars, regVars,
                   errors, observations, instruments>>

\* The inner handler runs and returns.
HttpHandler(i, script) ==
    /\ call[i].pc = "handler" /\ call[i].kind = "http"
    /\ LET rw == ServeScript([statusCode |-> call[i].statusCode, sent |-> 0], script)
       IN  call' = [call EXCEPT ![i].pc = "after",
                                ![i].statusCode = rw.statusCode,
                                ![i].sent = rw.sent,
                                ![i].trace = Append(@, Ev("handler", script))]
    /\ UNCHANGED <<lifeVars, exVars, regVars,
                   requests, errors, observations, instruments>>

\* ServeHTTP after the inner handler: the duration, the error counter, and
\* the return, at which net/http commits 200 if no status was committed.
HttpEnd(i) ==
    /\ call[i].pc = "after" /\ call[i].kind = "http"
    /\ LET c == call[i]
           path == <<c.target.path>>
           key == Itoa(c.statusCode)
       IN  /\ observations' = Observe(observations, instruments, path)
           /\ errors' = IF IsHTTPError(c.statusCode) THEN Inc(errors, key)
                        ELSE errors
           /\ call' = [call EXCEPT
                          ![i].pc = "returned",
                          ![i].sent = IF c.sent = 0 THEN 200 ELSE c.sent,
                          ![i].trace = c.trace \o ObserveEvents(instruments, path)
                                       \o (IF IsHTTPError(c.statusCode)
                                           THEN <<Ev("Errors.Inc", key)>> ELSE <<>>)]
    /\ UNCHANGED <<lifeVars, exVars, regVars, requests, instruments>>

\* ----------------------------------------------------- gRPC interceptors
\* The full-method strings of the calls sent through the interceptors: two
\* that extractServiceMethod accepts and one for each way it rejects.
GrpcFullMethods ==
    {<<"/", "s", "/", "m">>, <<"/", "s", "/", "m", "/", "m">>,
     <<>>, <<"s", "/", "m">>, <<"/">>, <<"/", "m">>, <<"/", "/", "m">>,
     <<"/", "s", "/">>}

\* What a handler returns: nil, an error that carries no status, or a
\* status error.
PlainError == <<"boom">>
StatusError(code) == <<"rpc error: code = ", code>>
HandlerErrors == {Nil, PlainError, StatusError("NotFound")}

\* status.FromError(err), then Code().String(), for a non-nil err.
GrpcCode(err) ==
    IF Len(err) = 2 /\ err[1] = "rpc error: code = " THEN err[2] ELSE "Unknown"

\* Variant of BeginRequests that counts the call before its full-method
\* string was checked.
BeginRequests_Unchecked(reqs, r) == Inc(reqs, <<r.service, r.method>>)

\* The request counter after the interceptor's first statements, r being
\* what extractServiceMethod returned.
BeginRequests(reqs, r) ==
    IF r.err # Nil THEN reqs ELSE Inc(reqs, <<r.service, r.method>>)

\* An interceptor up to the call of the handler: on a string that
\* extractServiceMethod rejects it returns the error at once.
GrpcBegin(i, kind, fm) ==
    /\ variant = "rpc" /\ CanBegin(i)
    /\ LET r == extractServiceMethod(fm)
           labels == <<r.service, r.method>>
       IN  /\ requests' = BeginRequests(requests, r)
           /\ call' = [call EXCEPT ![i] =
                  IF r.err # Nil
                  THEN [IdleCall EXCEPT !.pc = "returned", !.kind = kind,
                                        !.target = fm, !.ret = r.err]
                  ELSE [IdleCall EXCEPT !.pc = "handler", !.kind = kind,
                                        !.target = fm, !.labels = labels,
                                        !.trace = <<Ev("Requests.Inc", labels)>>]]
    /\ UNCHANGED <<lifeVars, exVars, regVars,
                   errors, observations, instruments>>

UnaryBegin(i, fm) == GrpcBegin(i, "unary", fm)

\* The handler of a unary call returns err.
UnaryHandler(i, err) ==
    /\ call[i].pc = "handler" /\ call[i].kind = "unary"
    /\ call' = [call EXCEPT ![i].pc = "after", ![i].err = err,
                            ![i].trace = Append(@, Ev("handler", err))]
    /\ UNCHANGED <<lifeVars, exVars, regVars,
                   requests, errors, observations, instruments>>

\* The unary interceptor after the handler: the duration, the error counter,
\* the return of the handler's error.
UnaryEnd(i) ==
    /\ call[i].pc = "after" /\ call[i].kind = "unary"
    /\ LET c == call[i]
           key == GrpcCode(c.err)
       IN  /\ observations' = Observe(observations, instruments, c.labels)
           /\ errors' = IF c.err # Nil THEN Inc(errors, key) ELSE errors
           /\ call' = [call EXCEPT
                          ![i].pc = "returned", ![i].ret = c.err,
                          ![i].trace = c.trace \o ObserveEvents(instruments, c.labels)
                                       \o (IF c.err # Nil
                                           THEN <<Ev("Errors.Inc", key)>> ELSE <<>>)]
    /\ UNCHANGED <<lifeVars, exVars, regVars, requests, instruments>>

StreamBegin(i, fm) == GrpcBegin(i, "stream", fm)

\* The handler of a stream returns err, and the statements that follow the
\* call at once: the error counter is incremented when err is not nil.
StreamHandler(i, err) ==
    /\ call[i].pc = "handler" /\ call[i].kind = "stream"
    /\ errors' = IF err # Nil THEN Inc(errors, GrpcCode(err)) ELSE errors
    /\ call' = [call EXCEPT
                   ![i].pc = "after", ![i].err = err,
                   ![i].trace = @ \o <<Ev("handler", err)>>
                                \o (IF err # Nil
                                    THEN <<Ev("Errors.Inc", GrpcCode(err))>>
                                    ELSE <<>>)]
    /\ UNCHANGED <<lifeVars, exVars, regVars,
                   requests, observations, instruments>>

\* The stream interceptor after that: the duration, the error counter once
\* more, the return of the handler's error.
StreamEnd(i) ==
    /\ call[i].pc = "after" /\ call[i].kind = "stream"
    /\ LET c == call[i]
           key == GrpcCode(c.err)
       IN  /\ observations' = Observe(observations, instruments, c.labels)
           /\ errors' = IF c.err # Nil THEN Inc(errors, key) ELSE errors
           /\ call' = [call EXCEPT
                          ![i].pc = "returned", ![i].ret = c.err,
                          ![i].trace = c.trace \o ObserveEvents(instruments, c.labels)
                                       \o (IF c.err # Nil
                                           THEN <<Ev("Errors.Inc", key)>> ELSE <<>>)]
    /\ UNCHANGED <<lifeVars, exVars, regVars, requests, instruments>>

\* The handler of a call panics: neither the middleware nor the
\* interceptors recover, so the panic leaves them without another statement
\* of theirs being executed.
HandlerPanics(i) ==
    /\ call[i].pc = "handler"
    /\ call' = [call EXCEPT ![i].pc = "panicked",
                            ![i].trace = Append(@, Ev("panic", <<>>))]
    /\ UNCHANGED <<lifeVars, exVars, regVars,
                   requests, errors, observations, instruments>>

\* One RED instance, as NewREDMiddleware or grpc.NewServer registers it, with
\* some duration instrument, and no call made yet.
RedInit ==
    /\ LifeIdle
    /\ requests = NoCounts
    /\ errors = NoCounts
    /\ observations = NoCounts
    /\ instruments \in {{"histogram"}, {"summary"}, {"histogram", "summary"}}
    /\ call = [i \in 1..MaxCalls |-> IdleCall]
    /\ ExIdle
    /\ RegAfterNewServer

RedNext ==
    \E i \in 1..MaxCalls :
        \/ \E req \in HttpRequests : HttpBegin(i, req)
        \/ \E script \in HandlerScripts : HttpHandler(i, script)
        \/ HttpEnd(i)
        \/ \E fm \in GrpcFullMethods : UnaryBegin(i, fm)
        \/ \E err \in HandlerErrors : UnaryHandler(i, err)
        \/ UnaryEnd(i)
        \/ \E fm \in GrpcFullMethods : StreamBegin(i, fm)
        \/ \E err \in HandlerErrors : StreamHandler(i, err)
        \/ StreamEnd(i)
        \/ HandlerPanics(i)

RedSpec == RedInit /\ [][RedNext]_vars

\* ------------------------------------------------- calls of constructors
\* A fresh process, in which the tests and callers construct metric sets,
\* middlewares, route tables and orchestrators one after another; the
\* registry is the one of the process.  Of a configuration's addresses,
\* none or one is malformed.
Malformed == {{}, {"primary"}, {"metrics"}}

CtorInit ==
    /\ LifeIdle
    /\ RedIdle
    /\ ExIdle
    /\ registry = {}
    /\ ctor = NoCtor

Construct(fn, config, routes, out) ==
    /\ ctor' = Ctor(fn, config, routes, registry, out)
    /\ registry' = out.registry
    /\ UNCHANGED <<lifeVars, redVars, exVars>>

MakeMetricSet(ns, requestType) ==
    Construct("NewMetricSet", Config(ns, {}), {},
              NewMetricSet(ns, requestType, registry))

MakeMiddleware(ns) ==
    Construct("NewREDMiddleware", Config(ns, {}), {},
              NewREDMiddleware(ns, {}, registry))

MakeRoutes(routes) ==
    LET made == CreateRoutes(routes)
    IN  Construct("CreateRoutes", Config(<<>>, {}), routes,
                  Outcome(IF made.panicked THEN NilObject
                          ELSE Object("mux", Config(<<>>, {}), made.mux),
                          Nil, registry, made.panicked))

MakeRestServer(config, routes) ==
    Construct("rest.NewServer", config, routes,
              RestNewServer(config, routes, registry))

MakeGrpcServer(config) ==
    Construct("grpc.NewServer", config, {}, GrpcNewServer(config, registry))

CtorNext ==
    \/ \E ns \in Namespaces, t \in {"http", "grpc"} : MakeMetricSet(ns, t)
    \/ \E ns \in Namespaces : MakeMiddleware(ns)
    \/ \E routes \in SUBSET Patterns : MakeRoutes(routes)
    \/ \E ns \in Namespaces, m \in Malformed, routes \in SUBSET Patterns :
           MakeRestServer(Config(ns, m), routes)
    \/ \E ns \in Namespaces, m \in Malformed :
           MakeGrpcServer(Config(ns, m))

CtorSpec == CtorInit /\ [][CtorNext]_vars

\* ================================================================ claims
Returned == runPc = "returned"
ShutdownRan == cause # "none"
BySignal == cause \in Signals
ByCancel == cause = "context_cancelled"

\* The listeners whose graceful stop was at least started: for the gRPC
\* server the start of the GracefulStop task counts.
GracefulAttempted ==
    gracefulInvoked \cup (IF gsPc # "none" THEN {"primary"} ELSE {})

\* C1: with both addresses bindable and no request or call in flight during
\* shutdown, run returns nil, whether the trigger was the cancellation of the
\* external context or an OS signal (the context then staying uncancelled).
C1_IdleShutdownReturnsNil ==
    (/\ Returned /\ ShutdownRan
     /\ \A l \in Listeners : addrOK[l]
     /\ ~busyInShutdown
     /\ (BySignal => ~ctxCancelled))
    => result = Nil

\* C2: in a shutdown triggered by the cancellation of the external context,
\* work in flight is not force-stopped before ShutdownTimeout has elapsed
\* since shutdown began.
C2_CancelShutdownGetsFreshDeadline ==
    (ByCancel /\ workCut # {}) => cutAt >= shutdownTimeout

\* C3: when shutdownServers returns after some listener's graceful stop
\* failed, a graceful stop was attempted on every listener and the returned
\* error is non-nil.
C3_EveryListenerAttempted ==
    (Returned /\ ShutdownRan /\ gracefulFailed # <<>>)
    => (GracefulAttempted = Listeners /\ result # Nil)

\* C4: when run returns a listener fault, no listener is serving or bound any
\* more.
C4_FaultStopsSibling ==
    (Returned /\ ~ShutdownRan)
    => \A l \in Listeners : ~bound[l] /\ ~tracked[l]

\* C5: after run returned nil from a shutdown triggered by cancellation or by
\* a signal, no listener address is bound.
C5_NothingBoundAfterCleanShutdown ==
    (Returned /\ ShutdownRan /\ result = Nil /\ \A l \in Listeners : addrOK[l])
    => \A l \in Listeners : ~bound[l] /\ ~tracked[l]

\* C6: in the HTTP orchestrator, when the Shutdown of the main server ends
\* with a request still in flight and the context done, shutdownServers
\* returns at that step, with the main server force-closed, its port
\* released, and an error that names the main server and wraps the error of
\* the context.
C6_MainTimeoutForcesClose ==
    [][(/\ variant = "http" /\ runPc = "sd_wait"
        /\ HttpServers[sdIdx] = "primary"
        /\ inflight["primary"] > 0
        /\ runPc' # runPc)
       => (/\ CtxDone(shutCtx)
           /\ runPc' = "returned"
           /\ "primary" \in forceInvoked'
           /\ inflight'["primary"] = 0
           /\ ~bound'["primary"] /\ ~tracked'["primary"]
           /\ result' = <<"main", " server could not stopped gracefully: ">>
                        \o shutCtx.err
           /\ shutCtx.err \in {Canceled, DeadlineExceeded})]_vars

C6_Witness ==
    /\ variant = "http" /\ Returned
    /\ gracefulFailed = <<"primary">>
    /\ workCut = {"primary"}
    /\ result[1] = "main"

\* C7: in the RPC orchestrator, (a) when shutdownServers has returned with
\* the context done and calls were still in flight on the gRPC server at the
\* deadline, the gRPC server has been force-stopped and the timeout error
\* returned; (b) when GracefulStop completed before the context was done and
\* the metrics listener stopped cleanly, nil is returned and Stop was never
\* called.
C7_GrpcStopRace ==
    /\ (/\ variant = "rpc" /\ Returned /\ ShutdownRan
        /\ CtxDone(shutCtx) /\ gsPc # "done"
        /\ (inflight["primary"] > 0 \/ "primary" \in forceInvoked))
       => ("primary" \in forceInvoked /\ result = GrpcTimeoutError)
    /\ (/\ variant = "rpc" /\ Returned /\ ShutdownRan
        /\ gsInTime
        /\ \A i \in 1..Len(gracefulFailed) : gracefulFailed[i] # "metrics")
       => (result = Nil /\ "primary" \notin forceInvoked)

\* C8: when shutdownServers has returned, every listener whose graceful stop
\* failed has had its force stop invoked, and the returned error carries the
\* name of the first listener that failed and, for a net/http server, wraps
\* the error its Shutdown returned.
C8_FailedStopIsForced ==
    (Returned /\ gracefulFailed # <<>>)
    => (/\ \A i \in 1..Len(gracefulFailed) : gracefulFailed[i] \in forceInvoked
        /\ result # Nil
        /\ result[1] = ServerName(variant, gracefulFailed[1])
        /\ IsHTTPServer(gracefulFailed[1])
           => (/\ CtxDone(shutCtx)
               /\ SubSeq(result, 3, Len(result)) = shutCtx.err))

C8_Witness ==
    /\ Returned /\ variant = "rpc"
    /\ gracefulFailed = <<"metrics">>
    /\ "metrics" \in forceInvoked

C10_FaultBranchOnlyWraps ==
    (Returned /\ ~ShutdownRan)
    => (/\ result # Nil
        /\ result[1] = "server error: "
        /\ Tail(result) \in {ListenError,
                             Wrap("failed to listen on host: ", ListenError)}
        /\ GracefulAttempted = {} /\ forceInvoked = {}
        /\ \A l \in Listeners : ~inShutdown[l]
        /\ log = <<>>
        /\ health # "NOT_SERVING")

C10_Witness ==
    /\ Returned /\ ~ShutdownRan
    /\ ~addrOK["metrics"] /\ addrOK["primary"]
    /\ tracked["primary"]
    /\ result = <<"server error: ">> \o ListenError

\* C11: once run has entered shutdownServers, on the cancellation of the
\* context or on a signal, run eventually returns, whether or not the
\* handlers in flight ever return.
C11_ShutdownReturns == InShutdownPhase ~> Returned

C11_Witness ==
    /\ Returned /\ ShutdownRan
    /\ shutdownTimeout > 0 /\ now = shutdownTimeout
    /\ workCut # {}
    /\ result # Nil

\* Every task run started has ended: both Serve tasks have sent their value,
\* and the GracefulStop task, if there is one, has closed stopped.
TasksEnded ==
    /\ \A l \in Listeners : servePc[l] = "done"
    /\ gsPc \in {"none", "done"}

\* C12: once run has returned, for whatever cause, and no task can take a
\* step on its own any more, every task run started has ended: no task is
\* left blocked waiting for an event that only the environment can supply.
C12_NoTaskLeftBlocked ==
    (Returned /\ ~ENABLED Program) => TasksEnded

\* C13: in the RPC orchestrator, whenever a graceful stop has been started on
\* any listener, shutdownServers has initiated, in this order: the health
\* status NOT_SERVING, the graceful stop of the gRPC server, the graceful
\* stop of the metrics server; and nothing is initiated outside that order.
C13_RpcShutdownOrder ==
    variant = "rpc"
    => (/\ initiated \in {<<>>, <<"health", "primary", "metrics">>}
        /\ GracefulAttempted # {}
           => (/\ initiated = <<"health", "primary", "metrics">>
               /\ gracefulInvoked \subseteq GracefulAttempted
               /\ GracefulAttempted = Listeners))

C13_Witness ==
    /\ variant = "rpc" /\ runPc = "sd_metrics"
    /\ initiated = <<"health", "primary", "metrics">>
    /\ health = "NOT_SERVING"
    /\ gsPc = "spawned"

\* C14: in the HTTP orchestrator, the graceful stop of the main server is
\* invoked only after the graceful stop of the metrics server was invoked and
\* has finished: the metrics server is the first one stopped.
C14_MetricsThenMain ==
    (variant = "http" /\ "primary" \in gracefulInvoked)
    => (/\ initiated[1] = "metrics"
        /\ "metrics" \in gracefulInvoked)

\* The 1-based positions of the separator in s, and the largest of a set.
SlashesOf(s) == {i \in 1..Len(s) : s[i] = "/"}
Largest(S) == CHOOSE x \in S : \A y \in S : y <= x

\* s is well formed: it starts with the separator, and the text between the
\* first and the last separator and the text after the last one are both
\* non-empty.
WellFormed(s) ==
    /\ Len(s) >= 1 /\ s[1] = "/"
    /\ LET j == Largest(SlashesOf(s)) IN j > 2 /\ j < Len(s)

\* C20: extractServiceMethod succeeds exactly on the well-formed strings, and
\* then returns the text between the first and the last separator as the
\* service and the text after the last separator as the method; '/s/m/m'
\* yields ('s/m', 'm'), and '', '/', '/m', '//m', '/s/' and 's/m' are errors.
C20_ExtractServiceMethod ==
    extracted.done
    => (/\ (extracted.err = Nil) <=> WellFormed(fullMethod)
        /\ WellFormed(fullMethod)
           => LET j == Largest(SlashesOf(fullMethod)) IN
               /\ extracted.service = SubSeq(fullMethod, 2, j - 1)
               /\ extracted.method = SubSeq(fullMethod, j + 1, Len(fullMethod))
        /\ fullMethod = <<"/", "s", "s", "/", "m">>
           => (/\ extracted.service = <<"s", "s">>
               /\ extracted.method = <<"m">> /\ extracted.err = Nil)
        /\ fullMethod = <<"/", "s", "/", "m", "/", "m">>
           => (/\ extracted.service = <<"s", "/", "m">>
               /\ extracted.method = <<"m">> /\ extracted.err = Nil)
        /\ fullMethod \in {<<>>, <<"/">>, <<"/", "m">>, <<"/", "/", "m">>,
                           <<"/", "s", "/">>, <<"s", "/", "m">>}
           => extracted.err # Nil)

C20_Witness ==
    /\ extracted.done /\ extracted.err = Nil
    /\ fullMethod = <<"/", "s", "/", "m", "/", "m">>
    /\ extracted.service = <<"s", "/", "m">>

\* C39: whenever extractServiceMethod succeeds on a full-method string, the
\* separator, the service, the separator and the method concatenated are
\* the string itself, and the method contains no separator.
C39_ExtractRoundTrip ==
    (extracted.done /\ extracted.err = Nil)
    => /\ <<"/">> \o extracted.service \o <<"/">> \o extracted.method
              = fullMethod
       /\ \A k \in DOMAIN extracted.method : extracted.method[k] # "/"

C39_Witness ==
    /\ extracted.done /\ extracted.err = Nil
    /\ fullMethod = <<"/", "m", "/", "/", "s", "m">>
    /\ extracted.service = <<"m", "/">>
    /\ extracted.method = <<"s", "m">>

\* ------------------------------------------------- claims on the metrics
Calls == 1..MaxCalls

\* How many entries of a call's trace are the operation op.
CountOp(trace, op) == Cardinality({k \in DOMAIN trace : trace[k][1] = op})

\* The keys a call's trace gives for the operation op, in order.
KeysOf(trace, op) ==
    LET sel == SelectSeq(trace, LAMBDA e : e[1] = op)
    IN  [k \in DOMAIN sel |-> sel[k][2]]

ReturnedCall(i, kinds) == call[i].pc = "returned" /\ call[i].kind \in kinds

\* The call went through the whole interceptor: it has a valid full-method
\* string, or it is an HTTP request.
Intercepted(i) == call[i].kind = "http" \/ WellFormed(call[i].target)

\* C15: a unary or streaming RPC with a valid full-method string that has
\* returned from the RED interceptor has incremented the request counter
\* once, observed the duration once on each instrument, and incremented the
\* error counter once if its handler returned an error and not at all
\* otherwise.
C15_GrpcCallCountedOnce ==
    \A i \in Calls :
        (ReturnedCall(i, {"unary", "stream"}) /\ Intercepted(i))
        => (/\ CountOp(call[i].trace, "Requests.Inc") = 1
            /\ CountOp(call[i].trace, "Duration.Observe") = Cardinality(instruments)
            /\ CountOp(call[i].trace, "Errors.Inc")
                   = IF call[i].err # Nil THEN 1 ELSE 0)

\* How many entries of a call's trace are the operation op on the child key.
CountEv(trace, op, key) ==
    Cardinality({k \in DOMAIN trace : trace[k][1] = op /\ trace[k][2] = key})

\* The script of the handler of an HTTP call whose handler has returned.
ScriptOf(c) == c.trace[2][2]

\* The handler sets no status but 200.
Only200(script) ==
    \A k \in DOMAIN script : script[k].op = "WriteHeader" => script[k].code = 200

\* The calls that have incremented the request counter's child key.
CallsCounting(key) == {i \in Calls : call[i].pc # "idle" /\ call[i].labels = key}

\* C16: an HTTP request whose inner handler has returned, whatever its
\* status, has incremented the request counter of its (path, verb) once and
\* nothing else of the request counter, and has observed the duration of its
\* path once on each instrument; when its handler sets no status but 200 it
\* has not touched the error counter.  The request counter of every (path,
\* verb) is the number of requests made for it, and as long as every handler
\* that returned set no status but 200 the error counter has no child.
C16_HttpRequestCountedOnce ==
    variant = "http"
    => (/\ \A i \in Calls :
            ReturnedCall(i, {"http"})
            => LET c == call[i] IN
                /\ CountOp(c.trace, "Requests.Inc") = 1
                /\ CountEv(c.trace, "Requests.Inc",
                           <<c.target.path, c.target.verb>>) = 1
                /\ CountOp(c.trace, "Duration.Observe") = Cardinality(instruments)
                /\ \A inst \in instruments :
                       CountEv(c.trace, "Duration.Observe",
                               <<inst, <<c.target.path>>>>) = 1
                /\ Only200(ScriptOf(c)) => CountOp(c.trace, "Errors.Inc") = 0
        /\ \A req \in HttpRequests :
            Get(requests, <<req.path, req.verb>>)
                = Cardinality(CallsCounting(<<req.path, req.verb>>))
        /\ \A req \in HttpRequests, inst \in instruments :
            Get(observations, <<inst, <<req.path>>>>)
                = Cardinality({i \in Calls : /\ call[i].pc = "returned"
                                             /\ call[i].target.path = req.path})
        /\ (\A i \in Calls : call[i].pc \in {"after", "returned"}
                             => Only200(ScriptOf(call[i])))
           => DOMAIN errors = {})

C16_Witness ==
    /\ variant = "http"
    /\ \A i \in Calls :
        /\ call[i].pc = "returned"
        /\ call[i].target = [path |-> "/", verb |-> "GET"]
        /\ ScriptOf(call[i]) = <<WH(200)>>
    /\ requests[<<"/", "GET">>] = MaxCalls
    /\ DOMAIN errors = {}

\* C17: an HTTP request that has returned from the middleware has
\* incremented an error counter once, the one keyed by the decimal digits of
\* the status sent to the client, when that status is at least 400, and no
\* error counter when it is below 400.
C17_ErrorIffSentStatusFails ==
    \A i \in Calls :
        ReturnedCall(i, {"http"})
        => LET c == call[i] IN
            IF c.sent >= 400
            THEN /\ CountOp(c.trace, "Errors.Inc") = 1
                 /\ CountEv(c.trace, "Errors.Inc", Itoa(c.sent)) = 1
                 /\ c.sent = 500 => KeysOf(c.trace, "Errors.Inc") = <<<<"5", "0", "0">>>>
            ELSE CountOp(c.trace, "Errors.Inc") = 0

\* C18: the status by which the middleware classifies a request that has
\* returned is the status that was sent to the client, which is the first
\* status the handler committed: a later WriteHeader does not change it.
C18_FirstStatusWins ==
    \A i \in Calls :
        ReturnedCall(i, {"http"}) => call[i].statusCode = call[i].sent

\* C19: the step in which a unary or streaming RPC with a malformed
\* full-method string enters the interceptor is its return with an error:
\* the handler is not invoked, and the request counter, the error counters
\* and the duration instruments are what they were.
C19_MalformedNotCounted ==
    [][\A i \in Calls :
        (/\ call[i].pc = "idle" /\ call'[i].pc # "idle"
         /\ call'[i].kind \in {"unary", "stream"}
         /\ ~WellFormed(call'[i].target))
        => (/\ call'[i].pc = "returned"
            /\ call'[i].ret # Nil
            /\ call'[i].trace = <<>>
            /\ requests' = requests
            /\ errors' = errors
            /\ observations' = observations)]_vars

C19_Witness ==
    /\ variant = "rpc"
    /\ call[1].pc = "returned" /\ call[1].kind = "stream"
    /\ call[1].target = <<"/", "/", "m">> /\ call[1].ret # Nil
    /\ call[2].pc = "returned" /\ call[2].kind = "unary"
    /\ call[2].target = <<"/", "m">> /\ call[2].ret # Nil
    /\ DOMAIN requests = {}

\* ------------------------------------------------- claims on the race
\* How often the listener (or the health service) l had its stop initiated.
TimesInitiated(l) == Cardinality({k \in DOMAIN initiated : initiated[k] = l})

\* C27: in every step, run once started leaves its select at most once and
\* by exactly one branch: either into the shutdown sequence with the cause
\* fixed, or to its return with the received server error and no cause.
\* The shutdown sequence is begun (at its first listener) only from the
\* select, the cause once set is never
\* changed, no listener's stop is initiated twice, and once the select is
\* left neither channel is received from again: a pending signal stays in
\* the shutdown channel and a Serve task's result stays in serverErrors.
\* After run has returned, its result does not change.
C27_RaceResolvedOnce ==
    [][/\ runPc \notin {"idle", "select"} => runPc' # "select"
       /\ (runPc = "select" /\ runPc' # "select")
          => \/ /\ runPc' = "shutdown" /\ cause' # "none" /\ result' = result
                /\ serverErrors' = serverErrors
             \/ /\ runPc' = "returned" /\ cause' = "none"
                /\ result' = Wrap("server error: ", Head(serverErrors))
                /\ shutdownCh' = shutdownCh
       /\ (runPc' = "shutdown" /\ sdIdx' = 1 /\ runPc # "shutdown")
          => runPc = "select"
       /\ cause # "none" => cause' = cause
       /\ \A l \in Listeners \cup {"health"} : TimesInitiated(l)' <= 1
       /\ runPc \notin {"idle", "select"}
          => /\ Len(shutdownCh') >= Len(shutdownCh)
             /\ Len(serverErrors') >= Len(serverErrors)
       /\ runPc = "returned"
          => runPc' = "returned" /\ result' = result]_vars

C27_Witness ==
    /\ Returned /\ ByCancel /\ result = Nil
    /\ Len(shutdownCh) = 1
    /\ \E k \in DOMAIN serverErrors : serverErrors[k] = ErrServerClosed
    /\ TimesInitiated("primary") = 1 /\ TimesInitiated("metrics") = 1

\* ------------------------------------------------ claims on the log
\* C33: every shutdown-phase event logged in a run carries the cause fixed
\* when run left its select, and that cause is 'context_cancelled' exactly
\* when the branch taken was the one of the external context (which is then
\* cancelled, and the context handed to shutdownServers is the external one
\* or a fresh one), and otherwise the name of a signal that was delivered
\* (the context handed over then being derived from the external one).
C33_OneCausePerRun ==
    /\ \A k \in DOMAIN log : log[k][3] = cause /\ ShutdownRan
    /\ ShutdownRan
       => /\ cause \in Signals \cup {"context_cancelled"}
          /\ cause = "context_cancelled"
             <=> shutCtx.kind \in {"parent", "fresh"}
          /\ cause = "context_cancelled" => ctxCancelled
          /\ cause \in Signals
             <=> shutCtx.kind = "derived" /\ sigsSent >= 1

C33_Witness ==
    /\ variant = "rpc" /\ Returned /\ result = Nil
    /\ cause = "terminated"
    /\ Len(log) = 5
    /\ \A k \in DOMAIN log : log[k][3] = "terminated"
    /\ ctxCancelled
\* C38: a 'shutdown complete' event is logged for a listener only when its
\* graceful stop did not fail, and the one of the main HTTP server comes
\* before the 'shutdown started' event of the metrics server, which is
\* stopped next.
C38_CompleteAfterGracefulStop ==
    \A k \in DOMAIN log :
        log[k][2] = "shutdown complete"
        => /\ \A i \in DOMAIN gracefulFailed :
                  ServerName(variant, gracefulFailed[i]) # log[k][1]
           /\ \A j \in DOMAIN log :
                  (/\ variant = "http"
                   /\ log[k][1] = ServerName("http", HttpServers[1])
                   /\ log[j][1] = ServerName("http", HttpServers[2])
                   /\ log[j][2] = "shutdown started")
                  => k < j

\* ------------------------------------------- claims on the fault channel
\* C32: a Serve task that has reached its send can always perform it, also
\* after run has returned; and the values sent so far, those still in the
\* channel and the one run received in its server-error branch, are one per
\* Serve task that has ended.
C32_SendNeverBlocks ==
    /\ \A l \in Listeners : servePc[l] = "send" => ENABLED ServeSend(l)
    /\ Len(serverErrors) + (IF Returned /\ ~ShutdownRan THEN 1 ELSE 0)
           = Cardinality({l \in Listeners : servePc[l] = "done"})

C32_Witness ==
    /\ Returned /\ ShutdownRan
    /\ \A l \in Listeners : servePc[l] = "done"
    /\ Len(serverErrors) = 2
\* ------------------------------------------- claims on the shutdown steps
\* The listeners whose graceful stop has been started and has neither
\* returned nor been forced: the Shutdown call the HTTP loop is waiting in,
\* the metrics Shutdown the RPC sequence is waiting in, and the GracefulStop
\* its task is draining in.
GracefulInProgress ==
    IF variant = "http"
    THEN {l \in Listeners : runPc = "sd_wait" /\ HttpServers[sdIdx] = l}
    ELSE {l \in {"metrics"} : runPc = "sd_metrics"}
         \cup {l \in {"primary"} : gsPc = "draining"}

\* C28: at no point are the graceful stops of two listeners in progress at
\* the same time, in either orchestrator.
C28_OneGracefulStopAtATime == Cardinality(GracefulInProgress) <= 1

\* The bind error of the primary listener as its Serve task reports it.
PrimaryBindError == Wrap("failed to listen on host: ", ListenError)

\* C29: in the RPC orchestrator the health status becomes SERVING only in a
\* step taken with the primary listener bound; when the primary address
\* cannot be bound the status is never SERVING, what the Serve task reports
\* is the bind error, and once reported it is in serverErrors or is the
\* server error run returned.
C29_ServingOnlyAfterBind ==
    [][variant = "rpc"
       => /\ (health' = "SERVING" /\ health # "SERVING") => bound["primary"]
          /\ ~addrOK["primary"]
             => /\ health' # "SERVING"
                /\ ~bound'["primary"]
                /\ servePc'["primary"] \in {"send", "done"}
                   => serveRet'["primary"] = PrimaryBindError
                /\ servePc'["primary"] = "done"
                   => \/ \E k \in DOMAIN serverErrors' :
                             serverErrors'[k] = PrimaryBindError
                      \/ result' = Wrap("server error: ", PrimaryBindError)]_vars

C29_Witness ==
    /\ variant = "rpc" /\ ~addrOK["primary"] /\ addrOK["metrics"]
    /\ Returned /\ ~ShutdownRan
    /\ result = Wrap("server error: ", PrimaryBindError)
    /\ health = "UNKNOWN"

\* The context shutdownServers was entered with was already done: its
\* timeout is zero, or it is the cancelled context itself or derived from it.
ExpiredAtEntry ==
    \/ shutdownTimeout = 0
    \/ variant = "http" /\ ByCancel
    \/ BySignal /\ cancelledAtEntry

\* C30: when shutdownServers, entered with a context already done and with
\* nothing in flight from then on, has returned, the stop of every listener
\* was initiated and the result is nil; and whenever shutdownServers
\* returned an error, some listener was force-stopped with work in flight.
C30_ExpiredDeadlineIdle ==
    (Returned /\ ShutdownRan)
    => /\ (ExpiredAtEntry /\ ~busyInShutdown)
          => /\ result = Nil
             /\ \A l \in Listeners : TimesInitiated(l) = 1
       /\ result # Nil => workCut # {}

\* --------------------------------------- claims on cancelling the drain
\* The listener whose graceful stop shutdownServers is waiting in.
WaitedOn ==
    IF runPc = "sd_wait" THEN HttpServers[sdIdx]
    ELSE IF runPc = "sd_metrics" THEN "metrics" ELSE "primary"

C34_NotServingIsFinal ==
    (variant = "rpc" /\ TimesInitiated("health") >= 1) => health # "SERVING"

\* C35: when the shutdownServers of the RPC orchestrator has returned, the
\* GracefulStop of the gRPC server has completed or Stop has been called.
C35_GrpcStoppedAtReturn ==
    (variant = "rpc" /\ Returned /\ ShutdownRan)
    => (gsPc = "done" \/ "primary" \in forceInvoked)

\* C36: when the run of the RPC orchestrator has returned, for whatever
\* cause, the health status is not SERVING.
C36_NotServingAfterRun ==
    (variant = "rpc" /\ Returned) => health # "SERVING"
\* ------------------------------------- claims on concurrent interception
\* The sum of the children of a counter over the keys in S.
RECURSIVE SumOver(_, _)
SumOver(m, S) ==
    IF S = {} THEN 0
    ELSE LET k == CHOOSE x \in S : TRUE IN m[k] + SumOver(m, S \ {k})
Total(m) == SumOver(m, DOMAIN m)

\* The calls that went through the HTTP middleware or the unary interceptor
\* and have returned, and those of them that ended in failure: an HTTP
\* request by the status its own responseWriter captured, a unary call by
\* the error of its own handler.
Completed ==
    {i \in Calls : ReturnedCall(i, {"http", "unary"}) /\ Intercepted(i)}
EndedInFailure(i) ==
    IF call[i].kind = "http" THEN call[i].statusCode >= 400
    ELSE call[i].err # Nil

\* C21: with calls interleaved in the HTTP middleware or the unary
\* interceptor, every completed call has touched the error counter once if
\* its own captured status or handler error is a failure and not at all
\* otherwise, whatever the other calls captured; and once no call is in
\* flight (and no streaming call was counted) the request counter sums to
\* the number of completed calls, each duration instrument has that many
\* observations, and the error counters sum to the number of completed
\* calls that ended in failure.
C21_ConcurrentCallsCounted ==
    /\ \A i \in Completed :
           CountOp(call[i].trace, "Errors.Inc")
               = IF EndedInFailure(i) THEN 1 ELSE 0
    /\ (\A i \in Calls : \/ call[i].pc = "idle"
                         \/ i \in Completed
                         \/ call[i].pc = "returned" /\ ~Intercepted(i))
       => /\ Total(requests) = Cardinality(Completed)
          /\ \A inst \in instruments :
                 SumOver(observations,
                         {k \in DOMAIN observations : k[1] = inst})
                     = Cardinality(Completed)
          /\ Total(errors)
                 = Cardinality({i \in Completed : EndedInFailure(i)})

C21_Witness ==
    /\ \A i \in Calls : i \in Completed /\ call[i].kind = "http"
    /\ call[1].target = call[2].target
    /\ call[1].statusCode = 500
    /\ call[2].statusCode = 200
    /\ Total(requests) = 2
    /\ Total(errors) = 1

\* ------------------------------------------- claims on one call's order
\* The positions in a call's trace of the operation op.
PositionsOf(trace, op) == {k \in DOMAIN trace : trace[k][1] = op}

\* The calls that reached the statement after extractServiceMethod (every
\* HTTP request does): their handler was invoked, whether it has returned,
\* panicked, or is still running.
Invoked == {i \in Calls : call[i].pc # "idle" /\ Intercepted(i)}

\* C31: a call whose handler was invoked has incremented the request
\* counter exactly once, as the first of its operations; the duration is
\* observed only after the handler's return, and not at all while the
\* handler is running or after it panicked; the request counter sums to
\* the number of calls whose handler was invoked, whether the handler
\* returned with or without a failure, panicked, or has not returned.
C31_CountedBeforeHandler ==
    /\ \A i \in Invoked :
        LET t == call[i].trace IN
        /\ PositionsOf(t, "Requests.Inc") = {1}
        /\ \A k \in PositionsOf(t, "Duration.Observe") :
               \E h \in PositionsOf(t, "handler") : h < k
        /\ call[i].pc \in {"handler", "panicked"}
           => PositionsOf(t, "Duration.Observe") = {}
        /\ call[i].pc = "returned"
           => CountOp(t, "Duration.Observe") = Cardinality(instruments)
    /\ Total(requests) = Cardinality(Invoked)

C31_Witness ==
    /\ call[1].pc = "panicked" /\ call[1].kind = "unary"
    /\ call[2].pc = "handler" /\ call[2].kind = "unary"
    /\ Total(requests) = 2
    /\ observations = NoCounts
\* ---------------------------------------------- claims on construction
\* The constructors that register a RED metric set, and the name the last
\* constructor call registers it under.
Registering == {"NewREDMiddleware", "rest.NewServer", "grpc.NewServer"}
CtorName ==
    <<IF ctor.fn = "grpc.NewServer" THEN "grpc" ELSE "http",
      ctor.config.namespace>>
CtorSucceeded ==
    /\ ctor.out.err = Nil
    /\ ~ctor.out.panicked
    /\ ctor.out.object # NilObject
CtorFailed ==
    /\ ctor.out.err # Nil
    /\ ~ctor.out.panicked
    /\ ctor.out.object = NilObject

\* C22: a call of NewREDMiddleware or of an orchestrator's NewServer with a
\* namespace that matches the metric-name pattern (and a route table that
\* leaves "/health" to CreateRoutes) succeeds and registers its name when
\* the name is not yet in the process-wide registry; when the name is
\* already there, which is so for every later construction of the same kind
\* under the same namespace, it fails with the registration error, returns
\* nil and leaves the registry as it was.
C22_OnePerNamespace ==
    (/\ ctor.fn \in Registering
     /\ MatchesMetricName(ctor.config.namespace)
     /\ "/health" \notin ctor.routes)
    => IF CtorName \notin ctor.before
       THEN /\ CtorSucceeded
            /\ ctor.out.object.config = ctor.config
            /\ registry = ctor.before \cup {CtorName}
       ELSE /\ CtorFailed
            /\ ctor.out.err =
                   Wrap("failed to register RED metrics: ", AlreadyRegistered)
            /\ registry = ctor.before

C22_Witness ==
    /\ ctor.fn = "grpc.NewServer"
    /\ ctor.config.namespace = <<"_", ":", "Z", "9">>
    /\ ctor.before = {<<"http", <<"a">>>>, <<"grpc", <<"_", ":", "Z", "9">>>>}
    /\ CtorFailed
    /\ registry = ctor.before

\* C23: a call of a constructor with a namespace that does not match the
\* metric-name pattern, the empty one included, fails with the namespace
\* error, returns nil and leaves the registry as it was, so that whatever
\* is constructed next finds the process as if the call had not been made.
C23_InvalidNamespace ==
    (/\ ctor.fn \in Registering \cup {"NewMetricSet"}
     /\ ~MatchesMetricName(ctor.config.namespace)
     /\ "/health" \notin ctor.routes)
    => /\ CtorFailed
       /\ ctor.out.err = IF ctor.fn = "NewMetricSet" THEN InvalidNamespace
                         ELSE Wrap("failed to create RED metrics: ",
                                   InvalidNamespace)
       /\ registry = ctor.before

C23_Witness ==
    /\ ctor.fn = "rest.NewServer"
    /\ ctor.config.namespace = <<"a", "-">>
    /\ ctor.routes = {"/", "/foo"}
    /\ ctor.before = {<<"http", <<"a">>>>}
    /\ CtorFailed
    /\ registry = ctor.before

\* C24: NewServer called with a configuration whose primary or metrics
\* address is malformed fails and returns nil.
C24_MalformedAddressAtConstruction ==
    (/\ ctor.fn \in {"rest.NewServer", "grpc.NewServer"}
     /\ ctor.config.malformed # {})
    => /\ ctor.out.err # Nil
       /\ ctor.out.object = NilObject

\* C25: CreateRoutes returns a mux; when the caller's routes have none at
\* "/health" the mux answers GET /health with 200 whatever the other routes,
\* and when the caller's routes have one, the mux serves "/health" with the
\* caller's handler.
C25_HealthRoute ==
    ctor.fn = "CreateRoutes"
    => /\ ~ctor.out.panicked
       /\ LET h == MuxHandler(ctor.out.object.mux, "/health")
          IN  IF "/health" \in ctor.routes THEN h = <<"route", "/health">>
              ELSE HandlerStatus(h) = 200

\* C26: the names registered at construction stay registered through run
\* and shutdown: an orchestrator of the same variant constructed with the
\* same namespace after run has returned fails with the registration error
\* and returns nil.
C26_RegistrationOutlivesRun ==
    /\ <<IF variant = "http" THEN "http" ELSE "grpc",
         ServerConfig.namespace>> \in registry
    /\ ctor.fn # "none"
       => /\ CtorFailed
          /\ ctor.out.err =
                 Wrap("failed to register RED metrics: ", AlreadyRegistered)
          /\ registry = ctor.before

C26_Witness ==
    /\ ctor.fn = "grpc.NewServer"
    /\ Returned /\ ShutdownRan /\ result = Nil
    /\ \A l \in Listeners : ~bound[l] /\ servePc[l] = "done"
    /\ CtorFailed

====
